---- MODULE Spec2Model ----
(***************************************************************************)
(* Video production pipeline of the YouTube automation system: the Celery  *)
(* tasks generate_video_task / upload_video_task (tasks/video_tasks.py)    *)
(* and the command endpoints POST /videos/{id}/generate and                *)
(* POST /videos/{id}/upload (api/v1/videos.py), all acting on the rows of  *)
(* the videos table (models/database.py).                                  *)
(*                                                                         *)
(* Every process (a Celery worker running one task, or the API server      *)
(* handling one request) owns its own database session; a commit makes the *)
(* assigned columns visible to every other session, and because            *)
(* sessionmaker keeps expire_on_commit at its default, an attribute read   *)
(* after a commit is read again from the table.  One action of the model   *)
(* is one stretch of code between two commits or two service calls.        *)
(*                                                                         *)
(* Spec and LiveSpec are the workers and the API server running the        *)
(* pipeline tasks and requests; CampaignSpec is one run of a periodic task *)
(* of the beat schedule (auto_generate_videos, auto_upload_videos,         *)
(* sync_all_analytics), which reads the channels and sends task messages   *)
(* to the queue; AnalyticsSpec is the workers running                      *)
(* sync_video_analytics (tasks/analytics_tasks.py).                        *)
(***************************************************************************)
EXTENDS Integers, FiniteSets, Sequences, Bags, TLC

\* ------------------------------------------------------------------ bounds
NumVideos == 2      \* rows in the videos table
MaxOps == 2         \* tasks delivered plus requests received in one run
NumChannels == 2    \* rows in the channels table

Videos == 1..NumVideos
\* Each delivered task and each received request runs in a process of its
\* own (a Celery worker process, or the API server's handler), so any number
\* of them up to MaxOps can be under way at once.
Workers == 1..MaxOps
\* An id no row has: a task or request for it takes the not-found path.
MissingId == 0
VideoIds == Videos \cup {MissingId}

\* ------------------------------------------------------- models/database.py
DRAFT == "draft"
GENERATING == "generating"
GENERATED == "generated"
UPLOADING == "uploading"
UPLOADED == "uploaded"
FAILED == "failed"
VideoStatus == {DRAFT, GENERATING, GENERATED, UPLOADING, UPLOADED, FAILED}

\* NULL of a nullable column.
None == "None"

\* A row of the videos table.  video_path stands for the four columns the
\* task writes together from the renderer's result (video_path,
\* thumbnail_path, duration, file_size); youtube_video_id and published_at
\* are the columns the upload task writes.
Video(st, prog, err, scr, path, yt, pub) ==
    [status |-> st, generation_progress |-> prog, error_message |-> err,
     script |-> scr, video_path |-> path, youtube_video_id |-> yt,
     published_at |-> pub]

\* Rows the table holds when the workers start: a video as create_video or
\* auto_generate_videos inserts it (DRAFT, progress 0, with or without a
\* script), a rendered video waiting for upload, and a published video.
StoredRows ==
    << Video(DRAFT, 0, None, None, None, None, None),
       Video(DRAFT, 0, None, "given", None, None, None),
       Video(GENERATED, 100, None, "given", "path", None, None),
       Video(UPLOADED, 100, None, "given", "path", "yt", "t") >>

\* The tables the run can start from.  No task or request treats one id
\* differently from another, so of the tables that differ only in which id
\* holds which row, the one with the rows in the order above stands for all.
StoredTables ==
    { [v \in Videos |-> StoredRows[pick[v]]] :
        pick \in { f \in [Videos -> DOMAIN StoredRows] :
                      \A a, b \in Videos : a <= b => f[a] <= f[b] } }

\* ------------------------------------------------------- models/database.py
Channels == 1..NumChannels

ACTIVE == "active"
INACTIVE == "inactive"
SUSPENDED == "suspended"
ChannelStatus == {ACTIVE, INACTIVE, SUSPENDED}

\* A row of the channels table: the columns the periodic tasks filter on.
Channel(st, gen, upl) ==
    [status |-> st, auto_generate |-> gen, auto_upload |-> upl]

\* Rows the channels table holds when a periodic task starts.
StoredChannels ==
    << Channel(ACTIVE, TRUE, TRUE),
       Channel(ACTIVE, TRUE, FALSE),
       Channel(ACTIVE, FALSE, TRUE),
       Channel(ACTIVE, FALSE, FALSE),
       Channel(INACTIVE, TRUE, TRUE),
       Channel(SUSPENDED, TRUE, TRUE) >>

\* No periodic task treats one channel id differently from another, so the
\* table with its rows in the order above stands for its permutations.
ChannelTables ==
    { [c \in Channels |-> StoredChannels[pick[c]]] :
        pick \in { f \in [Channels -> DOMAIN StoredChannels] :
                      \A a, b \in Channels : a <= b => f[a] <= f[b] } }

\* The video_analytics table before any sync or read: no row.
NoAnalytics == {}

\* ------------------------------------------------------------------- state
VARIABLES
    videos,     \* the videos table: id -> row
    jobs,       \* per process: the task or request it runs and where it is
    channels,   \* the channels table: id -> row
    channel_id, \* the channel_id column of the videos table: id -> channel
    queue,      \* the broker: the bag of task messages sent and not delivered
    campaign,   \* the periodic task Celery beat has started, and where it is
    analytics,  \* the video_analytics table: the set of its rows
    retry,      \* a call of AIProvider.generate_with_retry, and where it is
    pool,       \* the worker's child processes: their task instances and jobs
    selection,  \* a call of create_best_available_provider, and where it is
    detection   \* a call of detect_affected_projects, and where it is

vars == <<videos, jobs>>
campaignVars == <<channels, channel_id, queue, campaign>>
pipelineVars ==
    <<videos, jobs, channels, channel_id, queue, campaign, analytics>>
libVars == <<retry, pool, selection, detection>>
allVars ==
    <<videos, jobs, channels, channel_id, queue, campaign, analytics,
      retry, pool, selection, detection>>

\* What a task returns / an endpoint answers.
Result(st, msg, prog) == [status |-> st, message |-> msg, progress |-> prog]
NoResult == Result("none", "none", 0)

\* A task or request under way: which one, for which id, the status the row
\* had when the process queried it (None when there is no row), where the
\* process is, and what it returned once it is done.
Job(k, v, pc, res) ==
    [kind |-> k, vid |-> v,
     loaded |-> IF v \in Videos THEN videos[v].status ELSE None,
     pc |-> pc, result |-> res]
Idle == [kind |-> "none", vid |-> MissingId, loaded |-> None, pc |-> "idle",
         result |-> NoResult]

\* The state of a periodic task: the items (channels or videos) its query
\* returned and the loop has not reached yet, len() of the query's result,
\* the loop's counters, the items logger.error has reported, the channel
\* and video of the loop body under way, and the dict returned.
NoCampaign ==
    [kind |-> "none", pc |-> "idle", pending |-> {}, total |-> 0,
     count |-> 0, failed |-> 0, logged |-> {},
     channel |-> 0, video |-> 0, result |-> [status |-> "none"]]

\* No call of generate_with_retry is under way.
NoRetry ==
    [max_retries |-> 0, pc |-> "idle", attempt |-> 0, raised |-> <<>>,
     slept |-> <<>>, last_error |-> None, outcome |-> None]

\* The worker's child processes are looked at on their own further down:
\* here `jobs` says what each process runs.
NoPool == [running |-> <<>>, holds |-> <<>>, db |-> <<>>, open |-> {},
           made |-> 0]

\* No call of create_best_available_provider is under way.
NoSelection == [pc |-> "idle"]

\* No call of detect_affected_projects is under way.
NoDetection == [pc |-> "idle"]

\* The pipeline's tasks and requests run apart from the library calls
\* examined on their own further down.
NoCalls ==
    /\ retry = NoRetry
    /\ pool = NoPool
    /\ selection = NoSelection
    /\ detection = NoDetection

\* While the workers and the API server run the tasks and requests below,
\* no periodic task is under way: the channels are not read and nothing is
\* sent to the queue.
NoSchedule ==
    /\ channels = [c \in Channels |-> Channel(ACTIVE, FALSE, FALSE)]
    /\ channel_id = [v \in Videos |-> 1]
    /\ queue = EmptyBag
    /\ campaign = NoCampaign
    /\ analytics = NoAnalytics

Init ==
    /\ videos \in StoredTables
    /\ jobs = [w \in Workers |-> Idle]
    /\ NoSchedule
    /\ NoCalls

\* ------------------------------------------------------------ collaborators
\* services/video.py:32 declares VideoBuilderService.generate_video as
\* `async def`; generate_video_task is a plain `def` and calls it without
\* awaiting it (video_tasks.py:83-89).  The call therefore runs none of the
\* renderer's body (no progress callback, no file) and hands back the
\* coroutine object.
generate_video == [kind |-> "coroutine", video_path |-> None]

\* services/upload.py:26 declares YouTubeUploaderService.upload_video as
\* `async def` too, and upload_video_task calls it the same way
\* (video_tasks.py:163-172).
upload_video == [kind |-> "coroutine", youtube_video_id |-> None]

\* str(e) of the TypeError raised by video_result["video_path"] or
\* upload_result["youtube_video_id"] on a coroutine object.
ErrNotSubscriptable == "'coroutine' object is not subscriptable"

\* services/content.py is not among the sources: generate_script is the
\* Content Provider contract, which returns a script or raises.
generate_script == {"script", "raise"}
ErrContent == "content provider error"

\* ------------------------------------------------------------------ helpers
\* A step of a task or request changes the process's own position; none
\* of those below reads the channels or sends a message to the queue.
SetJob(w, j) ==
    /\ jobs' = [jobs EXCEPT ![w] = j]
    /\ UNCHANGED <<campaignVars, analytics, libVars>>
Goto(w, pc) == SetJob(w, [jobs[w] EXCEPT !.pc = pc])
Finish(w, res) == SetJob(w, [jobs[w] EXCEPT !.pc = "done", !.result = res])
Running(w, kind, pc) == jobs[w].kind = kind /\ jobs[w].pc = pc

\* A task is delivered to, or a request received by, the next unused
\* process.
Accept(w) ==
    /\ jobs[w].pc = "idle"
    /\ IF w = 1 THEN TRUE ELSE jobs[w - 1].pc # "idle"

\* A variant of MarkFailed that stores the status and drops the message.
MarkFailedStatusOnly(v, e) ==
    videos' = [videos EXCEPT ![v].status = FAILED]

\* The except blocks of both tasks (video_tasks.py:110-124 and 190-204):
\* the row is queried again and marked FAILED with the exception's text;
\* every other column keeps its value.
MarkFailed(v, e) ==
    videos' = [videos EXCEPT ![v].status = FAILED, ![v].error_message = e]

ErrorResult(e) == Result("error", e, 0)

\* ------------------------------------------------- generate_video_task
\* video_tasks.py:47-53: the task starts and loads the row.
StartGenerate(w, id) ==
    /\ Accept(w)
    /\ IF id \in Videos
         THEN SetJob(w, Job("generate", id, "g_mark", NoResult))
         ELSE SetJob(w, Job("generate", id, "done", ErrorResult("Video not found")))
    /\ UNCHANGED videos

\* A variant of GenMark that resets the progress and leaves the status.
GenMarkProgressOnly(w) ==
    /\ Running(w, "generate", "g_mark")
    /\ videos' = [videos EXCEPT ![jobs[w].vid].generation_progress = 0]
    /\ Goto(w, "g_script")

\* video_tasks.py:55-58: whatever the status was, it becomes GENERATING with
\* progress 0.
GenMark(w) ==
    /\ Running(w, "generate", "g_mark")
    /\ videos' = [videos EXCEPT ![jobs[w].vid].status = GENERATING,
                                ![jobs[w].vid].generation_progress = 0]
    /\ Goto(w, "g_script")

\* A variant of GenScript that calls the Content Provider whatever the row
\* holds.
GenScriptAlways(w) ==
    /\ Running(w, "generate", "g_script")
    /\ Goto(w, "g_provider")
    /\ UNCHANGED videos

\* video_tasks.py:60-72: the services are constructed and the row's script
\* is read; the Content Provider is called only when the row has none.
GenScript(w) ==
    /\ Running(w, "generate", "g_script")
    /\ IF videos[jobs[w].vid].script # None
         THEN Goto(w, "g_render")
         ELSE Goto(w, "g_provider")
    /\ UNCHANGED videos

\* video_tasks.py:73-79: the call of content_service.generate_script; the
\* script it returns is committed before the renderer is called, and an
\* exception it raises is caught by the task's except block.
GenProvider(w) ==
    LET v == jobs[w].vid IN
    /\ Running(w, "generate", "g_provider")
    /\ \E outcome \in generate_script :
          IF outcome = "script"
            THEN /\ videos' = [videos EXCEPT ![v].script = "generated"]
                 /\ Goto(w, "g_render")
            ELSE /\ MarkFailed(v, ErrContent)
                 /\ Finish(w, ErrorResult(ErrContent))

\* video_tasks.py:81-89: the render step, the call of
\* video_service.generate_video.
GenRender(w) ==
    /\ Running(w, "generate", "g_render")
    /\ Goto(w, "g_result")
    /\ UNCHANGED videos

\* video_tasks.py:91-124: the task reads video_result["video_path"], ... and
\* stores GENERATED with progress 100; when the subscript raises, the except
\* block stores FAILED and the task returns an error result.
GenResult(w) ==
    LET v == jobs[w].vid
        video_result == generate_video IN
    /\ Running(w, "generate", "g_result")
    /\ IF video_result.kind = "dict"
         THEN /\ videos' = [videos EXCEPT
                     ![v].video_path = video_result.video_path,
                     ![v].status = GENERATED,
                     ![v].generation_progress = 100]
              /\ Finish(w, Result("success", video_result.video_path, 0))
         ELSE /\ MarkFailed(v, ErrNotSubscriptable)
              /\ Finish(w, ErrorResult(ErrNotSubscriptable))

\* --------------------------------------------------- upload_video_task
ErrNotGenerated == "Video must be generated before uploading"

\* A variant of UploadAllowed that asks for a rendered file, not the status.
UploadAllowedWithFile(row) == row.video_path # None

\* video_tasks.py:146: the status check of the upload task.
UploadAllowed(row) == row.status = GENERATED

\* video_tasks.py:138-148: the task loads the row and returns an error
\* result, writing nothing, unless the status it read is GENERATED.
StartUpload(w, id) ==
    /\ Accept(w)
    /\ IF id \notin Videos
         THEN SetJob(w, Job("upload", id, "done", ErrorResult("Video not found")))
         ELSE IF ~UploadAllowed(videos[id])
           THEN SetJob(w, Job("upload", id, "done", ErrorResult(ErrNotGenerated)))
           ELSE SetJob(w, Job("upload", id, "u_mark", NoResult))
    /\ UNCHANGED videos

\* video_tasks.py:150-152.
UplMark(w) ==
    /\ Running(w, "upload", "u_mark")
    /\ videos' = [videos EXCEPT ![jobs[w].vid].status = UPLOADING]
    /\ Goto(w, "u_publish")

\* video_tasks.py:154-172: the call of uploader_service.upload_video.
UplPublish(w) ==
    /\ Running(w, "upload", "u_publish")
    /\ Goto(w, "u_result")
    /\ UNCHANGED videos

\* video_tasks.py:174-204.
UplResult(w) ==
    LET v == jobs[w].vid
        upload_result == upload_video IN
    /\ Running(w, "upload", "u_result")
    /\ IF upload_result.kind = "dict"
         THEN /\ videos' = [videos EXCEPT
                     ![v].youtube_video_id = upload_result.youtube_video_id,
                     ![v].status = UPLOADED,
                     ![v].published_at = "t"]
              /\ Finish(w, Result("success", upload_result.youtube_video_id, 0))
         ELSE /\ MarkFailed(v, ErrNotSubscriptable)
              /\ Finish(w, ErrorResult(ErrNotSubscriptable))

\* ------------------------------------------------- api/v1/videos.py
\* videos.py:296: the endpoint's check before it marks the row.
AlreadyGenerating(row) == row.status = GENERATING

\* videos.py:284-302: POST /videos/{id}/generate reads the row; 404 when
\* there is none, the current progress when it is GENERATING.
ReqGenerate(w, id) ==
    /\ Accept(w)
    /\ IF id \notin Videos
         THEN SetJob(w, Job("req_generate", id, "done",
                            Result("404", "Video not found", 0)))
         ELSE IF AlreadyGenerating(videos[id])
           THEN SetJob(w, Job("req_generate", id, "done",
                              Result("200", "Video generation in progress",
                                     videos[id].generation_progress)))
           ELSE SetJob(w, Job("req_generate", id, "rg_mark", NoResult))
    /\ UNCHANGED videos

\* videos.py:304-317: the row is marked GENERATING with progress 0; no task
\* is queued (the TODO at line 309).
ReqGenMark(w) ==
    /\ Running(w, "req_generate", "rg_mark")
    /\ videos' = [videos EXCEPT ![jobs[w].vid].status = GENERATING,
                                ![jobs[w].vid].generation_progress = 0]
    /\ Finish(w, Result("200", "Video generation queued", 0))

\* videos.py:382-397: POST /videos/{id}/upload; 404 when there is no row,
\* 400 unless the status read is GENERATED.
ReqUpload(w, id) ==
    /\ Accept(w)
    /\ IF id \notin Videos
         THEN SetJob(w, Job("req_upload", id, "done",
                            Result("404", "Video not found", 0)))
         ELSE IF videos[id].status # GENERATED
           THEN SetJob(w, Job("req_upload", id, "done",
                              Result("400", ErrNotGenerated, 0)))
           ELSE SetJob(w, Job("req_upload", id, "ru_mark", NoResult))
    /\ UNCHANGED videos

\* videos.py:399-407: the row is marked UPLOADING and returned; no task is
\* queued (the TODO at line 404).
ReqUplMark(w) ==
    /\ Running(w, "req_upload", "ru_mark")
    /\ videos' = [videos EXCEPT ![jobs[w].vid].status = UPLOADING]
    /\ Finish(w, Result("200", UPLOADING, videos[jobs[w].vid].generation_progress))

\* ------------------------------------------- tasks: the periodic campaigns
\* A task message as .delay(video.id) sends it to the broker.
Message(task, id) == [task |-> task, video_id |-> id]

\* .delay() returns once the broker has the message, or raises when the
\* broker cannot be reached.
delay == {"sent", "raise"}

\* query(...).all() and commit() return, or raise when the database fails.
Query == {"rows", "raise"}
ErrDatabase == "database error"

\* services/content.py is not among the sources:
\* generate_complete_video_content is the Content Provider contract, which
\* returns a complete idea (title, description, script, tags) or raises.
generate_complete_video_content == {"content", "raise"}

\* The dicts the periodic tasks return.
BatchResult(processed, queued) ==
    [status |-> "success", channels_processed |-> processed,
     videos_queued |-> queued]
SyncResult(total, synced, failed) ==
    [status |-> "success", total_videos |-> total, synced |-> synced,
     failed |-> failed]
BatchError(e) == [status |-> "error", message |-> e]

\* Celery beat starts the periodic task: its query either raises, which the
\* outer except block turns into the error dict, or returns the items the
\* loop will go through.
Begin(kind, items) ==
    /\ campaign.pc = "idle"
    /\ \E answer \in Query :
          IF answer = "rows"
            THEN campaign' = [NoCampaign EXCEPT !.kind = kind, !.pc = "loop",
                                                !.pending = items,
                                                !.total = Cardinality(items)]
            ELSE campaign' = [NoCampaign EXCEPT !.kind = kind, !.pc = "done",
                                                !.result = BatchError(ErrDatabase)]

InLoop(kind, pc) == campaign.kind = kind /\ campaign.pc = pc

\* A variant of AfterRaise that gives up the remaining items.
AfterRaiseStop(pending, item) == {}

\* The inner except blocks (video_tasks.py:259-261, 310-312): the error is
\* logged and `continue` goes on with the items that remain.
AfterRaise(pending, item) == pending \ {item}

Failed(item) ==
    campaign' = [campaign EXCEPT !.pending = AfterRaise(@, item),
                                 !.logged = @ \cup {item},
                                 !.pc = "loop"]

\* ------------------------------------------------- auto_generate_videos
\* video_tasks.py:215-218.
EligibleForGenerate(ch) == ch.auto_generate /\ ch.status = ACTIVE

\* video_tasks.py:213-222.
AutoGenerateStart ==
    /\ Begin("auto_generate_videos",
             {c \in Channels : EligibleForGenerate(channels[c])})
    /\ UNCHANGED <<videos, channels, channel_id, queue, jobs, analytics, libVars>>

\* video_tasks.py:224-251: for one channel the Content Provider is asked for
\* a complete idea and the new video is inserted in DRAFT and committed; an
\* exception of either ends the loop body for this channel.
AutoGenerateCreate ==
    /\ InLoop("auto_generate_videos", "loop")
    /\ \E c \in campaign.pending :
       \E content \in generate_complete_video_content, answer \in Query :
          IF content = "content" /\ answer = "rows"
            THEN /\ videos' = Append(videos, Video(DRAFT, 0, None, "generated",
                                                   None, None, None))
                 /\ channel_id' = Append(channel_id, c)
                 /\ campaign' = [campaign EXCEPT !.pc = "enqueue",
                                                 !.channel = c,
                                                 !.video = Len(videos) + 1]
            ELSE /\ Failed(c)
                 /\ UNCHANGED <<videos, channel_id>>
    /\ UNCHANGED <<channels, queue, jobs, analytics, libVars>>

\* video_tasks.py:253-261: generate_video_task.delay(new_video.id) and the
\* counter; when delay raises the video stays and the loop goes on.
AutoGenerateEnqueue ==
    /\ InLoop("auto_generate_videos", "enqueue")
    /\ \E outcome \in delay :
          IF outcome = "sent"
            THEN /\ queue' = queue (+) SetToBag({Message("generate_video_task",
                                                        campaign.video)})
                 /\ campaign' = [campaign EXCEPT
                                   !.pending = @ \ {campaign.channel},
                                   !.count = @ + 1, !.pc = "loop"]
            ELSE /\ Failed(campaign.channel)
                 /\ UNCHANGED queue
    /\ UNCHANGED <<videos, channels, channel_id, jobs, analytics, libVars>>

\* video_tasks.py:263-269.
AutoGenerateFinish ==
    /\ InLoop("auto_generate_videos", "loop")
    /\ campaign.pending = {}
    /\ campaign' = [campaign EXCEPT
                      !.pc = "done",
                      !.result = BatchResult(campaign.total, campaign.count)]
    /\ UNCHANGED <<videos, channels, channel_id, queue, jobs, analytics, libVars>>

\* --------------------------------------------------- auto_upload_videos
\* video_tasks.py:287-290.
EligibleForUpload(ch) == ch.auto_upload /\ ch.status = ACTIVE

\* video_tasks.py:285-294.
AutoUploadStart ==
    /\ Begin("auto_upload_videos",
             {c \in Channels : EligibleForUpload(channels[c])})
    /\ UNCHANGED <<videos, channels, channel_id, queue, jobs, analytics, libVars>>

\* A variant of Limit1 that returns every row.
LimitNone(rows) == {rows}

\* .limit(1).all() on a query with no order_by (video_tasks.py:299-302): the
\* results the database may return, none when there is no row and otherwise
\* any one of the rows.
Limit1(rows) == IF rows = {} THEN {{}} ELSE {{v} : v \in rows}

\* video_tasks.py:296-312: the channel's GENERATED videos are queried, and
\* upload_video_task.delay is called for each row returned; the query or
\* delay raising ends the loop body for this channel.
AutoUploadChannel ==
    /\ InLoop("auto_upload_videos", "loop")
    /\ \E c \in campaign.pending :
       \E answer \in Query, outcome \in delay :
       \E found \in Limit1({v \in DOMAIN videos :
                               /\ channel_id[v] = c
                               /\ videos[v].status = GENERATED}) :
          IF answer = "rows" /\ (found = {} \/ outcome = "sent")
            THEN /\ queue' = queue (+) SetToBag({Message("upload_video_task", v)
                                                   : v \in found})
                 /\ campaign' = [campaign EXCEPT
                                   !.pending = @ \ {c},
                                   !.count = @ + Cardinality(found)]
            ELSE /\ Failed(c)
                 /\ UNCHANGED queue
    /\ UNCHANGED <<videos, channels, channel_id, jobs, analytics, libVars>>

\* video_tasks.py:314-320.
AutoUploadFinish ==
    /\ InLoop("auto_upload_videos", "loop")
    /\ campaign.pending = {}
    /\ campaign' = [campaign EXCEPT
                      !.pc = "done",
                      !.result = BatchResult(campaign.total, campaign.count)]
    /\ UNCHANGED <<videos, channels, channel_id, queue, jobs, analytics, libVars>>

\* --------------------------------- analytics_tasks.py: sync_all_analytics
\* A variant of UploadedWithId that takes every video.
AnyVideo(row) == TRUE

\* analytics_tasks.py:112-115.
UploadedWithId(row) == row.status = UPLOADED /\ row.youtube_video_id # None

\* analytics_tasks.py:110-120.
SyncAllStart ==
    /\ Begin("sync_all_analytics",
             {v \in DOMAIN videos : UploadedWithId(videos[v])})
    /\ UNCHANGED <<videos, channels, channel_id, queue, jobs, analytics, libVars>>

\* analytics_tasks.py:122-129: sync_video_analytics.delay(video.id) for one
\* video, counted as synced once the message is sent and as failed when
\* delay raises.
SyncAllVideo ==
    /\ InLoop("sync_all_analytics", "loop")
    /\ \E v \in campaign.pending :
       \E outcome \in delay :
          IF outcome = "sent"
            THEN /\ queue' = queue (+) SetToBag({Message("sync_video_analytics",
                                                        v)})
                 /\ campaign' = [campaign EXCEPT !.pending = @ \ {v},
                                                 !.count = @ + 1]
            ELSE /\ campaign' = [campaign EXCEPT !.pending = @ \ {v},
                                                 !.failed = @ + 1,
                                                 !.logged = @ \cup {v}]
                 /\ UNCHANGED queue
    /\ UNCHANGED <<videos, channels, channel_id, jobs, analytics, libVars>>

\* analytics_tasks.py:131-138.
SyncAllFinish ==
    /\ InLoop("sync_all_analytics", "loop")
    /\ campaign.pending = {}
    /\ campaign' = [campaign EXCEPT
                      !.pc = "done",
                      !.result = SyncResult(campaign.total, campaign.count,
                                            campaign.failed)]
    /\ UNCHANGED <<videos, channels, channel_id, queue, jobs, analytics, libVars>>

\* celery_app.py:36-52: the beat schedule starts one of the three periodic
\* tasks; the tables are as the API and the workers left them.
CampaignInit ==
    /\ videos \in StoredTables
    /\ channels \in ChannelTables
    /\ channel_id \in { f \in [Videos -> Channels] :
                          \A a, b \in Videos :
                             (a <= b /\ videos[a] = videos[b]) => f[a] <= f[b] }
    /\ queue = EmptyBag
    /\ campaign = NoCampaign
    /\ jobs = [w \in Workers |-> Idle]
    /\ analytics = NoAnalytics
    /\ NoCalls

CampaignNext ==
    \/ AutoGenerateStart
    \/ AutoGenerateCreate
    \/ AutoGenerateEnqueue
    \/ AutoGenerateFinish
    \/ AutoUploadStart
    \/ AutoUploadChannel
    \/ AutoUploadFinish
    \/ SyncAllStart
    \/ SyncAllVideo
    \/ SyncAllFinish

CampaignSpec == CampaignInit /\ [][CampaignNext]_allVars

Next ==
    \E w \in Workers :
        \/ \E id \in VideoIds : StartGenerate(w, id)
        \/ GenMark(w)
        \/ GenScript(w)
        \/ GenProvider(w)
        \/ GenRender(w)
        \/ GenResult(w)
        \/ \E id \in VideoIds : StartUpload(w, id)
        \/ UplMark(w)
        \/ UplPublish(w)
        \/ UplResult(w)
        \/ \E id \in VideoIds : ReqGenerate(w, id)
        \/ ReqGenMark(w)
        \/ \E id \in VideoIds : ReqUpload(w, id)
        \/ ReqUplMark(w)

Spec == Init /\ [][Next]_allVars

TypeOK ==
    /\ videos \in [Videos -> [status : VideoStatus,
                              generation_progress : {0, 100},
                              error_message : {None, ErrContent, ErrNotSubscriptable},
                              script : {None, "given", "generated"},
                              video_path : {None, "path"},
                              youtube_video_id : {None, "yt"},
                              published_at : {None, "t"}]]
    /\ \A w \in Workers :
          /\ jobs[w].vid \in VideoIds
          /\ jobs[w].loaded \in VideoStatus \cup {None}
          /\ jobs[w].kind \in {"none", "generate", "upload", "req_generate", "req_upload"}

\* ================================================================== claims
\* The process w takes a step.
StepBy(w) == jobs'[w] # jobs[w]
\* w is the only task or request of the run so far.
Alone(w) == \A u \in Workers \ {w} : jobs[u].pc = "idle"
RenderedStatuses == {GENERATED, UPLOADING, UPLOADED}
GenerationKinds == {"generate", "req_generate"}
UploadKinds == {"upload", "req_upload"}
TaskKinds == {"generate", "upload"}

\* C1: for every video generation_progress is within [0,100], and it is 100
\* exactly when the status is GENERATED, UPLOADING or UPLOADED.
C1_ProgressIffRendered ==
    \A v \in Videos :
        /\ videos[v].generation_progress \in 0..100
        /\ videos[v].generation_progress = 100
              <=> videos[v].status \in RenderedStatuses

\* C2: a generation request or a generate task that finds the video
\* GENERATING writes nothing, starts no render and returns the current
\* progress.
C2_GeneratingIsIdempotent ==
    [][\A w \in Workers :
         (StepBy(w) /\ jobs'[w].kind \in GenerationKinds
                    /\ jobs'[w].loaded = GENERATING)
         => /\ videos' = videos
            /\ jobs'[w].pc = "done"
            /\ jobs'[w].result.progress
                 = videos[jobs'[w].vid].generation_progress]_vars

\* C3: an upload request or an upload task that finds the video in any
\* status but GENERATED writes nothing, does not reach the call of the
\* Publishing Service and ends with the precondition failure.
C3_UploadNeedsGenerated ==
    [][\A w \in Workers :
         (StepBy(w) /\ jobs'[w].kind \in UploadKinds
                    /\ jobs'[w].loaded \in VideoStatus \ {GENERATED})
         => /\ videos' = videos
            /\ jobs'[w].pc = "done"
            /\ jobs'[w].result
                 = IF jobs'[w].kind = "upload"
                     THEN ErrorResult(ErrNotGenerated)
                     ELSE Result("400", ErrNotGenerated, 0)]_vars

\* An upload task and an upload request have both been refused for a video
\* that was not GENERATED.
C3_Witness ==
    \E w, u \in Workers :
        /\ jobs[w].kind = "upload" /\ jobs[w].pc = "done"
        /\ jobs[w].loaded \in VideoStatus \ {GENERATED}
        /\ jobs[u].kind = "req_upload" /\ jobs[u].pc = "done"
        /\ jobs[u].loaded \in VideoStatus \ {GENERATED}

\* C4: at most one generate task of a video is at the render step.
C4_SingleFlight ==
    \A v \in Videos :
        Cardinality({ w \in Workers : /\ jobs[w].kind = "generate"
                                      /\ jobs[w].vid = v
                                      /\ jobs[w].pc = "g_render" }) <= 1

\* C5: a generation request or generate task that finds the video GENERATED,
\* UPLOADING or UPLOADED changes neither its status nor its progress.
C5_GenerationOnlyFromDraftOrFailed ==
    [][\A w \in Workers :
         (StepBy(w) /\ jobs'[w].kind \in GenerationKinds
                    /\ jobs'[w].loaded \in RenderedStatuses)
         => LET v == jobs'[w].vid IN
            /\ videos'[v].status = videos[v].status
            /\ videos'[v].generation_progress
                 = videos[v].generation_progress]_vars

\* C6: no step of a generate or upload task changes the status of a video
\* that is UPLOADED.
C6_UploadedIsTerminal ==
    [][\A w \in Workers :
         (StepBy(w) /\ jobs'[w].kind \in TaskKinds)
         => \A v \in Videos :
              videos[v].status = UPLOADED => videos'[v].status = UPLOADED]_vars

C8_GenerateSucceeds ==
    [][\A w \in Workers :
         (/\ Alone(w) /\ Running(w, "generate", "g_result")
          /\ jobs[w].loaded = DRAFT /\ jobs'[w].pc = "done")
         => LET v == jobs[w].vid IN
            /\ jobs'[w].result.status = "success"
            /\ videos'[v].status = GENERATED
            /\ videos'[v].generation_progress = 100
            /\ videos'[v].video_path # None]_vars

\* C9: when a generate task ends on an exception, it returns an error result
\* carrying the exception's text, the video is FAILED with that text as
\* error_message, the step leaves video_path as it was, and for a video
\* that was DRAFT video_path is still unset.
C9_GenerateFailureIsRecorded ==
    [][\A w \in Workers :
         (/\ jobs[w].kind = "generate" /\ jobs[w].pc \notin {"idle", "done"}
          /\ jobs'[w].pc = "done" /\ jobs'[w].result.status # "success")
         => LET v == jobs[w].vid
                r == jobs'[w].result IN
            /\ r.status = "error"
            /\ r.message \in {ErrContent, ErrNotSubscriptable}
            /\ videos'[v].status = FAILED
            /\ videos'[v].error_message = r.message
            /\ videos'[v].video_path = videos[v].video_path
            /\ jobs[w].loaded = DRAFT => videos'[v].video_path = None]_vars

\* Two generate tasks for DRAFT videos have ended in the except block, one
\* on the Content Provider's exception and one on the TypeError.
C9_Witness ==
    \E w, u \in Workers :
        /\ jobs[w].kind = "generate" /\ jobs[w].pc = "done"
        /\ jobs[w].loaded = DRAFT
        /\ jobs[w].result = ErrorResult(ErrContent)
        /\ videos[jobs[w].vid].error_message = ErrContent
        /\ jobs[u].kind = "generate" /\ jobs[u].pc = "done"
        /\ jobs[u].loaded = DRAFT
        /\ jobs[u].result = ErrorResult(ErrNotSubscriptable)
        /\ videos[jobs[u].vid].error_message = ErrNotSubscriptable
        /\ videos[jobs[u].vid].video_path = None

\* C10: an upload task that runs alone on a GENERATED video has stored
\* UPLOADING when it calls the Publishing Service, and when that call
\* returns the video ends UPLOADED with the external id and the publish
\* time stored (FAILED with the message and no id only when it raised).
C10_UploadLifecycle ==
    [][\A w \in Workers :
         /\ (Alone(w) /\ Running(w, "upload", "u_publish") /\ StepBy(w))
            => videos[jobs[w].vid].status = UPLOADING
         /\ (Alone(w) /\ Running(w, "upload", "u_result") /\ StepBy(w))
            => LET v == jobs[w].vid IN
               /\ jobs'[w].result.status = "success"
               /\ videos'[v].status = UPLOADED
               /\ videos'[v].youtube_video_id # None
               /\ videos'[v].published_at # None]_vars

\* ------------------------------------------------------------ scheduling
\* A step of the task or request the process w has started.  task_time_limit
\* and the web server let no started task or request wait for ever, so each
\* process that can take such a step eventually takes one; nothing obliges
\* anybody to send a task to the queue.
TaskStep(w) ==
    \/ GenMark(w) \/ GenScript(w) \/ GenProvider(w) \/ GenRender(w)
    \/ GenResult(w)
    \/ UplMark(w) \/ UplPublish(w) \/ UplResult(w)
    \/ ReqGenMark(w) \/ ReqUplMark(w)

LiveSpec == Spec /\ \A w \in Workers : WF_vars(TaskStep(w))

InProgress == {GENERATING, UPLOADING}

\* The endpoint has answered 200 to a generation or upload request for v
\* after marking the row.
Accepted(v) ==
    \E w \in Workers :
        /\ jobs[w].kind \in {"req_generate", "req_upload"}
        /\ jobs[w].vid = v
        /\ jobs[w].pc = "done"
        /\ jobs[w].result.status = "200"
        /\ jobs[w].loaded # GENERATING

\* C11: once the endpoint has accepted a generation or upload request for a
\* video and left it GENERATING or UPLOADING, the video eventually leaves
\* the in-progress statuses (for GENERATED, UPLOADED or FAILED).
C11_AcceptedRequestCompletes ==
    \A v \in Videos :
        (Accepted(v) /\ videos[v].status \in InProgress)
            ~> (videos[v].status \notin InProgress)

\* C12: a generate task goes to the call of the Content Provider only when
\* the script it reads is unset; the script is stored when the task goes on
\* to the Rendering Service; and a task that finds a script (as a re-run
\* after a failed render does) goes to the renderer without calling the
\* Content Provider, none of its steps changing the script.
C12_ScriptGeneratedOnce ==
    [][\A w \in Workers :
         LET v == jobs'[w].vid IN
         (StepBy(w) /\ jobs'[w].kind = "generate" /\ v \in Videos)
         => /\ jobs'[w].pc = "g_provider" => videos[v].script = None
            /\ jobs'[w].pc = "g_render" => videos'[v].script # None
            /\ jobs[w].pc = "g_render" => videos[v].script # None
            /\ (jobs[w].pc = "g_script" /\ videos[v].script # None)
                  => jobs'[w].pc = "g_render"
            /\ jobs[w].pc # "g_provider"
                  => videos'[v].script = videos[v].script]_vars

\* A generate task got a script from the Content Provider and failed at the
\* render step, and a later generate task for the same video, which found
\* it FAILED, has run to its end.
C12_Witness ==
    \E w, u \in Workers :
        /\ w < u /\ jobs[w].vid = jobs[u].vid
        /\ jobs[w].kind = "generate" /\ jobs[w].loaded = DRAFT
        /\ jobs[w].result = ErrorResult(ErrNotSubscriptable)
        /\ jobs[u].kind = "generate" /\ jobs[u].loaded = FAILED
        /\ jobs[u].pc = "done"
        /\ videos[jobs[u].vid].script = "generated"

\* ------------------------------- analytics_tasks.py: sync_video_analytics
\* services/upload.py:164 declares get_video_analytics as `async def`, and
\* sync_video_analytics, a plain `def`, calls it without awaiting it
\* (analytics_tasks.py:62): analytics_data is the coroutine object, not the
\* dict of metrics.
get_video_analytics == [kind |-> "coroutine"]

\* A Float column or value that is a quotient: num / den, den > 0.
Rate(n, d) == [num |-> n, den |-> d]
\* Two Floats are the same number.
SameRate(a, b) == a.num * b.den = b.num * a.den

\* upload.py:194: (likes + comments) / views if views > 0 else 0.
engagement_rate(views, likes, comments) ==
    IF views > 0 THEN Rate(likes + comments, views) ELSE Rate(0, 1)

\* The dict get_video_analytics builds from its draws (upload.py:180-198).
Metrics(views, likes, comments) ==
    [views |-> views, likes |-> likes, comments |-> comments,
     engagement_rate |-> engagement_rate(views, likes, comments)]

\* A dict of metrics as the body of get_video_analytics builds it
\* (upload.py:180-198), here with the lowest draws: 100 views.
StubMetrics == Metrics(100, 2, 0)

\* The counters of a row no sync has written (database.py:156-165: each
\* defaults to 0, engagement_rate to 0.0).
DefaultMetrics ==
    [views |-> 0, likes |-> 0, comments |-> 0, engagement_rate |-> Rate(0, 1)]

\* A row of the video_analytics table: its primary key, the video it
\* belongs to and the columns sync_video_analytics assigns.
VideoAnalytics(i, v, m) ==
    [id |-> i, video_id |-> v, views |-> m.views, likes |-> m.likes,
     comments |-> m.comments, engagement_rate |-> m.engagement_rate]

\* The rows of video v.
RowsOf(rows, v) == {row \in rows : row.video_id = v}

\* database.py:155: the primary key of the next inserted row.
NextId(rows) ==
    CHOOSE i \in 1..(NumVideos + MaxOps + 1) :
        /\ \A row \in rows : row.id < i
        /\ \A j \in 1..(i - 1) : \E row \in rows : row.id >= j

\* A variant of UniqueViolation for a column without the constraint.
NoUniqueViolation(rows, v) == FALSE

\* database.py:169: video_id is unique=True, so the INSERT of a second row
\* for a video raises IntegrityError at the commit.
UniqueViolation(rows, v) == RowsOf(rows, v) # {}

\* A variant of SyncAllowed that accepts a video in any status.
SyncAllowedAlways(row) == TRUE

\* analytics_tasks.py:53: the check of the sync task.
SyncAllowed(row) == row.status = UPLOADED /\ row.youtube_video_id # None

\* analytics_tasks.py:45-55: the task loads the row; no row is an error,
\* a video that is not UPLOADED or has no youtube_video_id is skipped.
StartSync(w, id) ==
    /\ Accept(w)
    /\ IF id \notin Videos
         THEN SetJob(w, Job("sync", id, "done", ErrorResult("Video not found")))
         ELSE IF ~SyncAllowed(videos[id])
           THEN SetJob(w, Job("sync", id, "done",
                              Result("skipped", "Video not uploaded", 0)))
           ELSE SetJob(w, Job("sync", id, "s_fetch", NoResult))
    /\ UNCHANGED videos

\* analytics_tasks.py:57-62: the call of uploader_service.get_video_analytics.
SyncFetch(w) ==
    /\ Running(w, "sync", "s_fetch")
    /\ Goto(w, "s_store")
    /\ UNCHANGED videos

\* analytics_tasks.py:64-101: the video's analytics row is queried, and
\* added to the session when there is none; its columns are assigned from
\* analytics_data and committed.  When the first subscript raises, the
\* except block returns the error dict: nothing was committed, and
\* after_return closes the session with the added row still pending.
SyncStore(w) ==
    LET v == jobs[w].vid
        analytics_data == get_video_analytics
        found == RowsOf(analytics, v) IN
    /\ Running(w, "sync", "s_store")
    /\ IF analytics_data.kind = "dict"
         THEN /\ analytics' =
                   IF found # {}
                     THEN LET row == CHOOSE r \in found : TRUE IN
                          (analytics \ {row})
                             \cup {VideoAnalytics(row.id, v, StubMetrics)}
                     ELSE analytics
                             \cup {VideoAnalytics(NextId(analytics), v,
                                                  StubMetrics)}
              /\ jobs' = [jobs EXCEPT ![w].pc = "done",
                                      ![w].result = Result("success", "views", 0)]
         ELSE /\ analytics' = analytics
              /\ jobs' = [jobs EXCEPT ![w].pc = "done",
                                      ![w].result = ErrorResult(ErrNotSubscriptable)]
    /\ UNCHANGED <<videos, campaignVars, libVars>>

\* ------------------------- api/v1/analytics.py: GET /analytics/video/{id}
ErrVideoNotFound == "Video not found"
ErrIntegrity == "IntegrityError"

\* analytics.py:44-56: the request loads the video (404 when there is
\* none) and queries its analytics row; a row that exists is the response.
StartRead(w, id) ==
    /\ Accept(w)
    /\ IF id \notin Videos
         THEN SetJob(w, Job("read", id, "done", ErrorResult(ErrVideoNotFound)))
         ELSE IF RowsOf(analytics, id) # {}
           THEN SetJob(w, Job("read", id, "done",
                              Result("success", "found", 0)))
           ELSE SetJob(w, Job("read", id, "r_insert", NoResult))
    /\ UNCHANGED videos

\* analytics.py:58-65: the query found no row, so one with the column
\* defaults is added and committed; the commit raises when another
\* process has inserted the video's row since the query.
ReadInsert(w) ==
    LET v == jobs[w].vid IN
    /\ Running(w, "read", "r_insert")
    /\ IF UniqueViolation(analytics, v)
         THEN /\ analytics' = analytics
              /\ jobs' = [jobs EXCEPT ![w].pc = "done",
                                      ![w].result = ErrorResult(ErrIntegrity)]
         ELSE /\ analytics' = analytics
                     \cup {VideoAnalytics(NextId(analytics), v, DefaultMetrics)}
              /\ jobs' = [jobs EXCEPT ![w].pc = "done",
                                      ![w].result = Result("success", "created", 0)]
    /\ UNCHANGED <<videos, campaignVars, libVars>>

\* The sync tasks the queue delivers find the tables as the pipeline and
\* the analytics endpoint left them: a video has no analytics row, or the
\* row of defaults GET /analytics/video/{id} inserts for it.
AnalyticsInit ==
    /\ videos \in StoredTables
    /\ jobs = [w \in Workers |-> Idle]
    /\ analytics \in SUBSET {VideoAnalytics(v, v, DefaultMetrics) : v \in Videos}
    /\ channels = [c \in Channels |-> Channel(ACTIVE, FALSE, FALSE)]
    /\ channel_id = [v \in Videos |-> 1]
    /\ queue = EmptyBag
    /\ campaign = NoCampaign
    /\ NoCalls

AnalyticsNext ==
    \E w \in Workers :
        \/ \E id \in VideoIds : StartSync(w, id)
        \/ SyncFetch(w)
        \/ SyncStore(w)
        \/ \E id \in VideoIds : StartRead(w, id)
        \/ ReadInsert(w)

AnalyticsSpec == AnalyticsInit /\ [][AnalyticsNext]_allVars

\* ---------------------------------------------------- campaign claims
\* The number of messages in the queue that ask for `task` on video v.
Sent(task, v) == CopiesIn(Message(task, v), queue)
\* The videos of channel c that `task` has been sent for.
SentFor(task, c) ==
    {v \in DOMAIN videos : channel_id[v] = c /\ Sent(task, v) > 0}
\* The GENERATED videos of channel c.
GeneratedOf(c) ==
    {v \in DOMAIN videos : channel_id[v] = c /\ videos[v].status = GENERATED}
\* The videos inserted since the periodic task started.
NewVideos == DOMAIN videos \ Videos
\* The periodic task `kind` has returned its success dict.
Returned(kind) ==
    /\ campaign.kind = kind /\ campaign.pc = "done"
    /\ campaign.result.status = "success"

\* C13: in a run of auto_upload_videos no channel gets more than one upload
\* message; when the run has returned, an ACTIVE channel with auto_upload
\* that has GENERATED videos, and whose loop body raised nothing, has
\* exactly one, for one of its GENERATED videos, and a channel that is not
\* eligible or has no GENERATED video has none.
C13_OneUploadPerChannel ==
    campaign.kind = "auto_upload_videos" =>
    \A c \in Channels :
        /\ Cardinality(SentFor("upload_video_task", c)) <= 1
        /\ \A v \in DOMAIN videos : Sent("upload_video_task", v) <= 1
        /\ SentFor("upload_video_task", c) \subseteq GeneratedOf(c)
        /\ Returned("auto_upload_videos") =>
              Cardinality(SentFor("upload_video_task", c))
                 = IF /\ channels[c].status = ACTIVE /\ channels[c].auto_upload
                      /\ GeneratedOf(c) # {} /\ c \notin campaign.logged
                     THEN 1 ELSE 0

\* A run of auto_upload_videos has returned, having sent one upload message
\* for a channel that has two GENERATED videos.
C13_Witness ==
    /\ Returned("auto_upload_videos")
    /\ \E c \in Channels :
          /\ Cardinality(GeneratedOf(c)) >= 2
          /\ Cardinality(SentFor("upload_video_task", c)) = 1

\* database.py:113,126: ids are assigned in insertion order and created_at
\* is the time of the insert, so the earlier created video has the lower id.
CreatedBefore(a, b) == a < b

\* C14: the video auto_upload_videos sends an upload message for is the
\* oldest GENERATED video of its channel.
C14_OldestFirst ==
    campaign.kind = "auto_upload_videos" =>
    \A v \in DOMAIN videos :
        Sent("upload_video_task", v) > 0
        => \A u \in GeneratedOf(channel_id[v]) : ~CreatedBefore(u, v)

\* C15: no periodic task inserts a video or sends a message for a channel
\* that is not ACTIVE; auto_generate_videos acts only for channels with
\* auto_generate, auto_upload_videos only for channels with auto_upload.
C15_OnlyActiveChannels ==
    /\ \A v \in NewVideos :
          /\ channels[channel_id[v]].status = ACTIVE
          /\ channels[channel_id[v]].auto_generate
    /\ \A v \in DOMAIN videos :
          /\ (\E task \in {"generate_video_task", "upload_video_task",
                           "sync_video_analytics"} : Sent(task, v) > 0)
                => channels[channel_id[v]].status = ACTIVE
          /\ Sent("generate_video_task", v) > 0
                => channels[channel_id[v]].auto_generate
          /\ Sent("upload_video_task", v) > 0
                => channels[channel_id[v]].auto_upload

\* When auto_generate_videos has returned: every ACTIVE channel with
\* auto_generate whose loop body raised nothing has exactly one new video,
\* in DRAFT, and exactly one generate message, for that video.
AutoGenerateDone ==
    Returned("auto_generate_videos") =>
    \A c \in Channels :
        (/\ channels[c].status = ACTIVE /\ channels[c].auto_generate
         /\ c \notin campaign.logged)
        => \E v \in NewVideos :
              /\ {u \in NewVideos : channel_id[u] = c} = {v}
              /\ videos[v].status = DRAFT
              /\ SentFor("generate_video_task", c) = {v}
              /\ Sent("generate_video_task", v) = 1

\* C16: in a run of auto_generate_videos the exception of one channel's loop
\* body leaves the other channels to be processed: each eligible channel
\* whose own body raised nothing ends with exactly one new DRAFT video and
\* exactly one generate message for it, and the message is sent for a row
\* that was committed in an earlier step.
C16_ContinueOnError ==
    [][campaign'.kind = "auto_generate_videos" =>
         /\ AutoGenerateDone'
         /\ \A v \in DOMAIN videos' :
               Sent("generate_video_task", v)' > Sent("generate_video_task", v)
               => /\ v \in NewVideos
                  /\ videos[v].status = DRAFT
                  /\ channel_id[v] = campaign.channel]_allVars

\* A run of auto_generate_videos has returned after the loop body raised
\* for one channel and created and queued a video for another.
C16_Witness ==
    /\ Returned("auto_generate_videos")
    /\ campaign.logged # {}
    /\ campaign.result.videos_queued >= 1
    /\ \E v \in NewVideos : channel_id[v] \notin campaign.logged

\* C17: auto_generate_videos and auto_upload_videos always return the
\* success dict with their counts, never one error for the whole run: the
\* queued count is the number of messages sent and the rest of the channels
\* processed covers those whose loop body raised.
C17_BatchResultHasCounts ==
    (campaign.kind \in {"auto_generate_videos", "auto_upload_videos"}
        /\ campaign.pc = "done")
    => /\ campaign.result.status = "success"
       /\ campaign.result.videos_queued = BagCardinality(queue)
       /\ campaign.result.channels_processed - campaign.result.videos_queued
             >= Cardinality(campaign.logged)

\* C18: when sync_all_analytics has returned, each video that is UPLOADED
\* with a youtube_video_id has exactly one sync message unless delay raised
\* for it, no other video has any, the messages are still in the queue (no
\* worker has been waited for), and synced + failed is the number of videos
\* the query returned.
C18_SyncFanOut ==
    campaign.kind = "sync_all_analytics" =>
    /\ \A v \in DOMAIN videos :
          /\ Sent("sync_video_analytics", v) <= 1
          /\ Sent("sync_video_analytics", v) > 0
                => /\ videos[v].status = UPLOADED
                   /\ videos[v].youtube_video_id # None
    /\ Returned("sync_all_analytics") =>
          LET enumerated == {v \in DOMAIN videos :
                                /\ videos[v].status = UPLOADED
                                /\ videos[v].youtube_video_id # None} IN
          /\ \A v \in enumerated :
                Sent("sync_video_analytics", v)
                   = IF v \in campaign.logged THEN 0 ELSE 1
          /\ campaign.result.total_videos = Cardinality(enumerated)
          /\ campaign.result.synced + campaign.result.failed
                = campaign.result.total_videos
          /\ campaign.result.synced = BagCardinality(queue)
          /\ campaign.result.failed = Cardinality(campaign.logged)
          /\ \A w \in Workers : jobs[w].pc = "idle"

\* A run of sync_all_analytics has returned with a message sent for an
\* UPLOADED video and none for a video that is not UPLOADED.
C18_Witness ==
    /\ Returned("sync_all_analytics")
    /\ campaign.result.synced = 1
    /\ \E v \in DOMAIN videos : Sent("sync_video_analytics", v) = 1
    /\ \E v \in DOMAIN videos : videos[v].status # UPLOADED

\* C19: no step of a sync task changes a row of the videos table; a sync
\* task for a video that is not UPLOADED, or has no youtube_video_id, ends
\* at once with the skipped result, without the call of the Publishing
\* Service and without a write to the analytics table.
C19_SyncLeavesVideoAlone ==
    [][\A w \in Workers :
         (StepBy(w) /\ jobs'[w].kind = "sync")
         => /\ videos' = videos
            /\ LET v == jobs'[w].vid IN
               (/\ v \in Videos
                /\ ~(videos[v].status = UPLOADED
                       /\ videos[v].youtube_video_id # None))
               => /\ jobs[w].pc = "idle" /\ jobs'[w].pc = "done"
                  /\ jobs'[w].result.status = "skipped"
                  /\ analytics' = analytics]_allVars

\* A sync task has been skipped for a video that is not UPLOADED and
\* another has run to its end for an UPLOADED video.
C19_Witness ==
    \E w, u \in Workers :
        /\ jobs[w].kind = "sync" /\ jobs[w].pc = "done"
        /\ jobs[w].loaded \in VideoStatus \ {UPLOADED}
        /\ jobs[w].result.status = "skipped"
        /\ jobs[u].kind = "sync" /\ jobs[u].pc = "done"
        /\ jobs[u].loaded = UPLOADED
        /\ jobs[u].result.status # "skipped"

C22_OneAnalyticsRow ==
    [][\A v \in Videos :
         /\ Cardinality(RowsOf(analytics, v)) <= 1
         /\ Cardinality(RowsOf(analytics', v)) <= 1
         /\ (RowsOf(analytics, v) = {} /\ RowsOf(analytics', v) # {})
            => \E w \in Workers :
                  /\ StepBy(w) /\ jobs[w].vid = v
                  /\ jobs[w].kind \in {"sync", "read"}
                  /\ jobs'[w].result.status = "success"]_allVars

\* Two reads of the same video both found no row; one created it and the
\* commit of the other was refused.
C22_Witness ==
    \E w, u \in Workers :
        /\ jobs[w].kind = "read" /\ jobs[u].kind = "read"
        /\ jobs[w].vid = jobs[u].vid
        /\ jobs[w].result = Result("success", "created", 0)
        /\ jobs[u].result = ErrorResult(ErrIntegrity)
        /\ Cardinality(RowsOf(analytics, jobs[w].vid)) = 1

\* ------------------------- providers/ai/base.py: generate_with_retry
MaxRetries == 3     \* the largest max_retries a call is made with

\* base.py:242-260: the exceptions a provider's generate_text raises.
AIProviderError == "AIProviderError"
AIProviderAuthError == "AIProviderAuthError"
AIProviderRateLimitError == "AIProviderRateLimitError"
AIProviderTimeoutError == "AIProviderTimeoutError"
AIProviderInvalidRequestError == "AIProviderInvalidRequestError"
ProviderErrors ==
    {AIProviderError, AIProviderAuthError, AIProviderRateLimitError,
     AIProviderTimeoutError, AIProviderInvalidRequestError}
\* The failures a later attempt can get past: timeout and rate limit.
Transient == {AIProviderRateLimitError, AIProviderTimeoutError}

\* `raise last_error` with last_error = None (base.py:229): Python raises
\* TypeError, exceptions must derive from BaseException.
TypeError == "TypeError"

\* base.py:214: what `await self.generate_text(prompt, **kwargs)` does: it
\* returns an AIResponse or raises.
generate_text == {"AIResponse"} \cup ProviderErrors

\* A variant of wait_time with a constant delay.
wait_time_constant(attempt) == 1

\* base.py:220: wait_time = 2 ** attempt.
wait_time(attempt) == 2 ^ attempt

\* base.py:216-219: `except Exception` catches every failure, and the
\* wrapper sleeps and goes on unless this was the last attempt.
ShouldRetry(e, attempt, max_retries) == attempt < max_retries - 1

\* base.py:213-218: one pass of the loop body up to the handler: the
\* provider is called; a response is returned at once, a failure is kept
\* in last_error.
RetryAttempt ==
    /\ retry.pc = "loop" /\ retry.attempt < retry.max_retries
    /\ \E r \in generate_text :
          IF r \notin ProviderErrors
            THEN retry' = [retry EXCEPT !.pc = "returned", !.outcome = r]
            ELSE retry' =
                   [retry EXCEPT
                      !.raised = Append(@, r),
                      !.last_error = r,
                      !.pc = IF ShouldRetry(r, retry.attempt,
                                            retry.max_retries)
                               THEN "sleep" ELSE "loop",
                      !.attempt = IF ShouldRetry(r, retry.attempt,
                                                 retry.max_retries)
                                    THEN @ ELSE @ + 1]
    /\ UNCHANGED <<pipelineVars, pool, selection, detection>>

\* base.py:219-221: the backoff before the next attempt.
RetrySleep ==
    /\ retry.pc = "sleep"
    /\ retry' = [retry EXCEPT !.slept = Append(@, wait_time(retry.attempt)),
                              !.attempt = @ + 1,
                              !.pc = "loop"]
    /\ UNCHANGED <<pipelineVars, pool, selection, detection>>

\* base.py:212,229: range(max_retries) is used up: raise last_error.
RetryRaise ==
    /\ retry.pc = "loop" /\ retry.attempt >= retry.max_retries
    /\ retry' = [retry EXCEPT !.pc = "raised",
                              !.outcome = IF retry.last_error = None
                                            THEN TypeError
                                            ELSE retry.last_error]
    /\ UNCHANGED <<pipelineVars, pool, selection, detection>>

\* No task, request or periodic task is under way.
PipelineIdle ==
    /\ videos = [v \in Videos |-> StoredRows[1]]
    /\ jobs = [w \in Workers |-> Idle]
    /\ NoSchedule

\* A call of generate_with_retry with some max_retries >= 0 has set
\* last_error = None and is about to enter the loop (base.py:210-212).
RetryInit ==
    /\ retry \in {[NoRetry EXCEPT !.max_retries = n, !.pc = "loop"] :
                     n \in 0..MaxRetries}
    /\ PipelineIdle
    /\ pool = NoPool
    /\ selection = NoSelection
    /\ detection = NoDetection

RetryNext == RetryAttempt \/ RetrySleep \/ RetryRaise

RetrySpec == RetryInit /\ [][RetryNext]_allVars

\* The delays 2^0, ..., 2^(k-1).
Backoff(k) == [i \in 1..k |-> 2 ^ (i - 1)]

\* C23: a call that returns the provider's response after k failed
\* attempts has slept exactly k times, for 2^0, 2^1, ..., 2^(k-1) seconds
\* in that order, and k < max_retries.
C23_BackoffDelays ==
    retry.pc = "returned" =>
        /\ retry.outcome = "AIResponse"
        /\ Len(retry.raised) < retry.max_retries
        /\ retry.slept = Backoff(Len(retry.raised))

\* A call with max_retries = 3 met two transient failures, slept 1 s and
\* then 2 s, and returned the response of the third attempt.
C23_Witness ==
    /\ retry.pc = "returned" /\ retry.max_retries = 3
    /\ Len(retry.raised) = 2
    /\ \A i \in 1..2 : retry.raised[i] \in Transient
    /\ retry.slept = <<1, 2>>

\* C24: once the provider has raised an authentication or malformed-request
\* failure, the wrapper neither sleeps nor calls the provider again.
C24_NoRetryOnPermanentFailure ==
    \A i \in 1..Len(retry.raised) :
        retry.raised[i] \in {AIProviderAuthError,
                              AIProviderInvalidRequestError}
        => /\ Len(retry.raised) = i
           /\ Len(retry.slept) < i
           /\ retry.pc # "returned"

\* The number of provider calls made so far.
Calls == Len(retry.raised) + (IF retry.pc = "returned" THEN 1 ELSE 0)

\* C28: a call with max_retries = n calls the provider at most n times and
\* sleeps at most n - 1 times (never, when n = 0); when it ends by raising
\* it has made n calls that all failed and raises a provider error: the
\* error of the last attempt when n >= 1.
C28_RetryTerminates ==
    /\ Calls <= retry.max_retries
    /\ Len(retry.slept) <= IF retry.max_retries = 0
                             THEN 0 ELSE retry.max_retries - 1
    /\ retry.pc = "raised" =>
          /\ Len(retry.raised) = retry.max_retries
          /\ retry.outcome \in ProviderErrors
          /\ retry.max_retries >= 1 =>
                retry.outcome = retry.raised[retry.max_retries]

\* ------------------- video_tasks.py, analytics_tasks.py: DatabaseTask
NumProcs == 2       \* child processes of the worker
MaxSessions == 3    \* sessions SessionLocal() creates in one run

Procs == 1..NumProcs
\* The tasks declared with base=DatabaseTask, bind=True (video_tasks.py:37,
\* 126, 206, 278; analytics_tasks.py:35, 103).
TaskNames ==
    {"generate_video_task", "upload_video_task", "sync_video_analytics"}

\* A variant of Instance for a pool whose jobs all run in one process, on
\* the one instance of their task.
InstanceShared(p, t) == <<1, t>>

\* celery_app.py:14-33 names no worker_pool, so the worker runs Celery's
\* default prefork pool (worker_max_tasks_per_child, line 32, is its
\* setting): each child process has its own copy of every task instance,
\* the `self` of bind=True, and runs one job at a time.
Instance(p, t) == <<p, t>>

\* celery_app.py:31: a child process that runs no job is handed the next
\* message; the task body starts.
Deliver(p, t) ==
    /\ pool.running[p] = "none"
    /\ pool.made < MaxSessions
    /\ pool' = [pool EXCEPT !.running[p] = t]
    /\ UNCHANGED <<pipelineVars, retry, selection, detection>>

\* video_tasks.py:26-30: the db property.  The first use creates the
\* session with SessionLocal() and keeps it in _db of the task instance;
\* the job works with what the property returns.
UseDb(p) ==
    LET t == pool.running[p]
        self == Instance(p, t) IN
    /\ t # "none"
    /\ IF pool.db[self] = 0
         THEN /\ pool.made < MaxSessions
              /\ pool' = [pool EXCEPT !.made = @ + 1,
                                      !.open = @ \cup {pool.made + 1},
                                      !.db[self] = pool.made + 1,
                                      !.holds[p] = pool.made + 1]
         ELSE pool' = [pool EXCEPT !.holds[p] = pool.db[self]]
    /\ UNCHANGED <<pipelineVars, retry, selection, detection>>

\* video_tasks.py:32-35: after_return closes the instance's session, if
\* there is one, and resets _db; the job is over.
AfterReturn(p) ==
    LET t == pool.running[p]
        self == Instance(p, t) IN
    /\ t # "none"
    /\ pool' = [pool EXCEPT !.open = @ \ {pool.db[self]},
                            !.db[self] = 0,
                            !.running[p] = "none",
                            !.holds[p] = 0]
    /\ UNCHANGED <<pipelineVars, retry, selection, detection>>

\* The worker has started: no child process runs a job and no task
\* instance has a session (_db = None, video_tasks.py:24).
PoolInit ==
    /\ pool = [running |-> [p \in Procs |-> "none"],
               holds |-> [p \in Procs |-> 0],
               db |-> [self \in Procs \X TaskNames |-> 0],
               open |-> {},
               made |-> 0]
    /\ PipelineIdle
    /\ retry = NoRetry
    /\ selection = NoSelection
    /\ detection = NoDetection

PoolNext ==
    \E p \in Procs :
        \/ \E t \in TaskNames : Deliver(p, t)
        \/ UseDb(p)
        \/ AfterReturn(p)

PoolSpec == PoolInit /\ [][PoolNext]_allVars

\* C25: the session a running job works with is open, no other running
\* job works with it, and it is the session of no other process's task
\* instance: no other job's after_return can close or reset it.
C25_SessionNotShared ==
    \A p \in Procs :
        pool.holds[p] # 0 =>
            /\ pool.holds[p] \in pool.open
            /\ \A q \in Procs \ {p} :
                  /\ pool.holds[q] # pool.holds[p]
                  /\ \A t \in TaskNames : pool.db[<<q, t>>] # pool.holds[p]

\* Two jobs of the same task run at once, each with a session of its own,
\* after an earlier job has returned and had its session closed.
C25_Witness ==
    \E p, q \in Procs :
        /\ p # q /\ pool.running[p] = pool.running[q]
        /\ pool.running[p] # "none"
        /\ pool.holds[p] # 0 /\ pool.holds[q] # 0
        /\ pool.holds[p] # pool.holds[q]
        /\ \E s \in 1..pool.made : s \notin pool.open

\* The upload tasks that found video v GENERATED and have made the call of
\* uploader_service.upload_video for it.
PublishCalls(v) ==
    {w \in Workers : /\ jobs[w].kind = "upload" /\ jobs[w].vid = v
                     /\ jobs[w].loaded = GENERATED
                     /\ jobs[w].pc \in {"u_result", "done"}}

\* C26: for a video that was GENERATED, at most one upload task makes the
\* call of the Publishing Service, however the upload tasks for it are
\* delivered and interleaved.
C26_PublishAtMostOnce ==
    \A v \in Videos : Cardinality(PublishCalls(v)) <= 1

\* videos.py:350-356: what GET /videos/{id}/progress answers for a row.
get_video_progress(row) ==
    [status |-> row.status, progress |-> row.generation_progress,
     error |-> row.error_message]

\* C27: the progress query reports an error only for a video whose status
\* is FAILED: a video that is DRAFT, GENERATING, GENERATED, UPLOADING or
\* UPLOADED has no error_message.
C27_ErrorOnlyWhileFailed ==
    \A v \in Videos :
        get_video_progress(videos[v]).error # None
        => get_video_progress(videos[v]).status = FAILED

\* ------------- providers/ai/factory.py: create_best_available_provider
\* What os.getenv gives for a key: None when the variable is not set, or
\* its string, which may be empty.
EnvValues == {None, "", "sk-key"}
\* factory.py:167,172: `if openai_key:` is false for None and for "".
Truthy(x) == x \notin {None, ""}

\* What the GET of http://localhost:11434/api/tags ends with
\* (factory.py:184-193): a status, or an exception.
OllamaAnswers == {"200", "500", "refused", "timeout"}
\* factory.py:185-193: response.status == 200, and False on any exception.
check_ollama(answer) == answer = "200"

\* factory.py:16-19: the registry of provider classes.
_providers == {"openai", "ollama"}

\* factory.py:58-68: AIProviderFactory.create.  The names it is called
\* with below are lower-case literals, which lower() leaves as they are.
create(provider_name) ==
    IF provider_name \notin _providers
      THEN [kind |-> "raise", value |-> "ValueError"]
      ELSE [kind |-> "provider", value |-> provider_name]

\* factory.py:125-136 and 138-149.
create_openai_provider == create("openai")
create_ollama_provider == create("ollama")

\* factory.py:200-205.
NoProviderAvailable == [kind |-> "raise", value |-> "RuntimeError"]

\* factory.py:165-168.
TryOpenAI ==
    /\ selection.pc = "openai"
    /\ selection' =
          IF Truthy(selection.openai_key)
            THEN [selection EXCEPT !.pc = "done",
                                   !.outcome = create_openai_provider]
            ELSE [selection EXCEPT !.pc = "deepseek"]
    /\ UNCHANGED <<pipelineVars, retry, pool, detection>>

\* factory.py:170-177.
TryDeepSeek ==
    /\ selection.pc = "deepseek"
    /\ selection' =
          IF Truthy(selection.deepseek_key)
            THEN [selection EXCEPT !.pc = "done",
                                   !.outcome = create("deepseek")]
            ELSE [selection EXCEPT !.pc = "ollama"]
    /\ UNCHANGED <<pipelineVars, retry, pool, detection>>

\* factory.py:179-198: the server is asked; an exception of
\* create_ollama_provider would be swallowed by the bare except.
TryOllama ==
    /\ selection.pc = "ollama"
    /\ selection' =
          IF /\ check_ollama(selection.ollama)
             /\ create_ollama_provider.kind = "provider"
            THEN [selection EXCEPT !.pc = "done",
                                   !.outcome = create_ollama_provider]
            ELSE [selection EXCEPT !.pc = "none"]
    /\ UNCHANGED <<pipelineVars, retry, pool, detection>>

\* factory.py:200-205.
RaiseNoProvider ==
    /\ selection.pc = "none"
    /\ selection' = [selection EXCEPT !.pc = "done",
                                      !.outcome = NoProviderAvailable]
    /\ UNCHANGED <<pipelineVars, retry, pool, detection>>

\* A call of create_best_available_provider in some environment
\* (factory.py:151-163).
SelectionInit ==
    /\ selection \in
          {[pc |-> "openai", openai_key |-> o, deepseek_key |-> d,
            ollama |-> a, outcome |-> [kind |-> "none", value |-> "none"]] :
              o \in EnvValues, d \in EnvValues, a \in OllamaAnswers}
    /\ PipelineIdle
    /\ retry = NoRetry
    /\ pool = NoPool
    /\ detection = NoDetection

SelectionNext == TryOpenAI \/ TryDeepSeek \/ TryOllama \/ RaiseNoProvider

SelectionSpec == SelectionInit /\ [][SelectionNext]_allVars

\* The backend the priority OpenAI key, DeepSeek key, reachable Ollama
\* server picks in the call's environment.
BestAvailable ==
    IF Truthy(selection.openai_key) THEN "openai"
    ELSE IF Truthy(selection.deepseek_key) THEN "deepseek"
    ELSE IF selection.ollama = "200" THEN "ollama"
    ELSE "none"

\* C29: a call that has ended has returned the provider of the first
\* available backend in the order OpenAI key, DeepSeek key, reachable
\* Ollama server, and has raised the No AI provider available RuntimeError
\* only when there is none.
C29_BestAvailableProvider ==
    selection.pc = "done" =>
        selection.outcome =
            IF BestAvailable = "none"
              THEN NoProviderAvailable
              ELSE [kind |-> "provider", value |-> BestAvailable]

\* ------------------- scripts/detect_changes.py: detect_affected_projects
MaxFiles == 2       \* the longest list of changed files

\* The directories os.listdir finds under apps/ and under packages/
\* (detect_changes.py:40-41) are among these.
AppNames == {"web", "ui"}
PackageNames == {"ui"}

\* The lines of `git diff --name-only` (detect_changes.py:23-25), each as
\* the sequence of the components its slashes separate.  <<"">> is the one
\* entry ''.strip().split('\n') gives when nothing has changed.
ChangedPaths ==
    { <<"apps", "web", "main.py">>, <<"apps", "ui", "app.js">>,
      <<"apps", "README.md">>, <<"packages", "ui", "index.js">>,
      <<"README.md">>, <<"">> }

\* The lists of at most MaxFiles changed files.
ChangedFiles ==
    UNION { [1..n -> ChangedPaths] : n \in 0..MaxFiles }

\* detect_changes.py:44,50: f.startswith('apps/'), f.startswith('packages/').
StartsWith(f, prefix) == Len(f) >= 2 /\ f[1] = prefix
\* detect_changes.py:45-47: f[len(prefix):].split(os.sep)[0].
project_name(f) == f[2]
\* detect_changes.py:49,55: f'{app_prefix}{project_name}'.
Project(prefix, name) == <<prefix, name>>
\* detect_changes.py:61: the special marker.
AllMarker == <<"all">>

\* A variant of FallsBack that looks for the marker only.
FallsBackOnMarker(affected_projects) == AllMarker \in affected_projects

\* detect_changes.py:64: `'all' in affected_projects or not affected_projects`.
FallsBack(affected_projects) ==
    AllMarker \in affected_projects \/ affected_projects = {}

\* list(...) of a set, and a list comprehension over a directory listing:
\* each element once, in an order the caller cannot rely on.
ListOf(S) ==
    CHOOSE q \in [1..Cardinality(S) -> S] : \A x \in S : \E i \in DOMAIN q : q[i] = x

\* detect_changes.py:43-62: one pass of the loop over changed_files.
DetectFile ==
    LET f == detection.changed_files[detection.i] IN
    /\ detection.pc = "loop"
    /\ detection.i <= Len(detection.changed_files)
    /\ detection' =
          IF StartsWith(f, "apps")
            THEN [detection EXCEPT
                    !.i = @ + 1,
                    !.affected_projects =
                        IF project_name(f) \in detection.all_apps
                          THEN @ \cup {Project("apps", project_name(f))}
                          ELSE @]
          ELSE IF StartsWith(f, "packages")
            THEN [detection EXCEPT
                    !.i = @ + 1,
                    !.affected_projects =
                        IF project_name(f) \in detection.all_packages
                          THEN @ \cup {Project("packages", project_name(f))}
                          ELSE @]
          ELSE [detection EXCEPT
                    !.affected_projects = @ \cup {AllMarker},
                    !.pc = "break"]
    /\ UNCHANGED <<pipelineVars, retry, pool, selection>>

\* detect_changes.py:64-75: after the loop, or after its break.
DetectReturn ==
    /\ \/ detection.pc = "break"
       \/ /\ detection.pc = "loop"
          /\ detection.i > Len(detection.changed_files)
    /\ detection' =
          [detection EXCEPT
             !.pc = "done",
             !.result =
                 IF FallsBack(detection.affected_projects)
                   THEN ListOf({Project("apps", a) :
                                   a \in detection.all_apps})
                        \o ListOf({Project("packages", p) :
                                      p \in detection.all_packages})
                   ELSE ListOf(detection.affected_projects)]
    /\ UNCHANGED <<pipelineVars, retry, pool, selection>>

\* A call of detect_affected_projects(changed_files) that has listed the
\* two directories (detect_changes.py:31-41).
DetectInit ==
    /\ detection \in
          {[pc |-> "loop", i |-> 1, changed_files |-> files,
            all_apps |-> apps, all_packages |-> packages,
            affected_projects |-> {}, result |-> <<>>] :
              files \in ChangedFiles, apps \in SUBSET AppNames,
              packages \in SUBSET PackageNames}
    /\ PipelineIdle
    /\ retry = NoRetry
    /\ pool = NoPool
    /\ selection = NoSelection

DetectNext == DetectFile \/ DetectReturn

DetectSpec == DetectInit /\ [][DetectNext]_allVars

\* Every existing app and package.
AllProjects ==
    {<<"apps", a>> : a \in detection.all_apps}
       \cup {<<"packages", p>> : p \in detection.all_packages}
\* A changed file lies in project proj.
Contains(proj, f) == Len(f) >= 2 /\ f[1] = proj[1] /\ f[2] = proj[2]
\* The existing projects that contain a changed file.
Hit ==
    {proj \in AllProjects :
        \E i \in DOMAIN detection.changed_files :
            Contains(proj, detection.changed_files[i])}
\* Some changed file lies outside apps/ and outside packages/.
SomeOutside ==
    \E i \in DOMAIN detection.changed_files :
        LET f == detection.changed_files[i] IN
        ~(Len(f) >= 2 /\ f[1] \in {"apps", "packages"})
\* The result names exactly the projects of S, each once.
Lists(result, S) ==
    /\ Len(result) = Cardinality(S)
    /\ {result[i] : i \in DOMAIN result} = S
\* The result is what the rule of the claim asks for.
ResultAsRuled ==
    Lists(detection.result,
          IF SomeOutside \/ Hit = {} THEN AllProjects ELSE Hit)

\* C30 as stated: the call returns every existing app and package when a
\* changed file lies outside apps/ and packages/ or no changed file maps
\* to an existing project, and otherwise exactly the existing projects
\* that contain a changed file, each once; and for an empty list of
\* changed files the result is never empty.
C30_AsStated ==
    detection.pc = "done" =>
        /\ ResultAsRuled
        /\ detection.changed_files = <<>> => detection.result # <<>>

\* C30, amended: the same rule; for an empty list of changed files the
\* result is every existing app and package, which is not empty when
\* there is at least one.
C30_AffectedProjects ==
    detection.pc = "done" =>
        /\ ResultAsRuled
        /\ detection.changed_files = <<>> =>
              /\ Lists(detection.result, AllProjects)
              /\ AllProjects # {} => detection.result # <<>>

\* A call with an empty list of changed files has returned all three
\* existing projects.
C30_Witness ==
    /\ detection.pc = "done"
    /\ detection.changed_files = <<>>
    /\ Cardinality(AllProjects) = 3
    /\ Len(detection.result) = 3

====
